---- MODULE Spec2Model ----
(***************************************************************************)
(* Model of the Locus-MQ queue engine: src/src/core/MessageQueue.ts on top *)
(* of the DatabaseManager transaction gateway (src/unnamed/part_013).      *)
(*                                                                         *)
(* Every DatabaseManager.executeTransaction call runs a synchronous        *)
(* better-sqlite3 transaction, so each store operation is one atomic step. *)
(* The `await`s between store operations are points where other code may  *)
(* run, so the steps of different operations interleave freely.            *)
(* The schema declares messages.queue_name as a foreign key into `queues`  *)
(* with foreign_keys = ON; the model covers queues that have a row there.  *)
(***************************************************************************)
EXTENDS Integers, Sequences, FiniteSets, TLC

(* ------------------------------ bounds -------------------------------- *)
MaxIds == 3                      \* message ids (uuidv4) that can be issued
MaxBusy == 2                     \* ... in the workloads with failing handlers
MaxDlq == 2                      \* dead-letter row ids that can be issued
MaxBatch == 2                    \* messages in one sendBatch call

(* -------------------------- program constants ------------------------- *)
MsPerSec == 1000                 \* Math.floor(ms / 1000), strftime('%s')
BackoffSec == 60                 \* available_at = now + (retries * 60)
DefaultPriority == 5             \* options.priority ?? 5
RequeueMaxRetries == 3           \* requeueDeadLetterMessage: max_retries
ShutdownAttempts == 30           \* gracefulShutdown: while (attempts < 30 ...
BackoffFactor == 2               \* setTimeout(..., pollInterval * 2)
maxPriority == 10                \* queue.priority.maxPriority of the defaults

(* ------------------------------ domains ------------------------------- *)
Ids == 1..MaxIds
Consumers == {1, 2}              \* consume() registrations
Queues == {"q1"}
\* the queues a workload sends to: the consumed one, and in the claim
\* workload one that no registration consumes
QueuesOf(w) == IF w = "claim" THEN Queues \cup {"q2"} ELSE Queues
NoDedup == "null"                \* options.deduplicationId || null
NoExpiry == -1                   \* options.expiresAt ? ... : null
NoMeta == "null"                 \* message.metadata ? ... : null
NoPriority == -1                 \* options.priority is absent
Undefined == "undefined"         \* the JavaScript value undefined

\* A behaviour exercises one workload: the send options that vary in it, the
\* instants at which the clock is read and how many messages are sent.
\* Options that a workload does not vary are left out of the send call.
Opt(prio, delay, maxR, dedup, exp) ==
    [priority |-> prio, delay |-> delay, maxRetries |-> maxR,
     dedup |-> dedup, expiresAt |-> exp, metadata |-> NoMeta]

SendOptions(w) ==
    CASE w = "priority" ->
           {Opt(p, 0, 1, NoDedup, NoExpiry) : p \in {1, 5, 9}}
      [] w = "delay" ->
           {Opt(DefaultPriority, d, 1, NoDedup, NoExpiry) :
              d \in {0, 500, 1000}}
      [] w = "dedup" ->
           {Opt(DefaultPriority, 0, 1, d, NoExpiry) :
              d \in {NoDedup, "d1"}}
      [] w = "expiry" ->
           {Opt(DefaultPriority, 0, 1, NoDedup, e) :
              e \in {NoExpiry, 500}}
      [] w = "retry" ->
           {Opt(DefaultPriority, 0, r, NoDedup, NoExpiry) : r \in {1, 2}}
      [] w = "timeout" ->
           {Opt(DefaultPriority, 0, r, NoDedup, NoExpiry) : r \in {0, 1}}
      [] w = "requeue" ->
           {[Opt(DefaultPriority, 0, 1, NoDedup, NoExpiry)
               EXCEPT !.metadata = m] : m \in {NoMeta, "m1"}}
      [] w = "payload" ->
           {Opt(p, 0, 1, NoDedup, NoExpiry) : p \in {1, DefaultPriority}}
      [] w = "batch" ->
           {Opt(DefaultPriority, 0, 1, d, NoExpiry) :
              d \in {NoDedup, "d1"}}
      [] w = "stop" ->
           {Opt(DefaultPriority, 0, r, NoDedup, NoExpiry) : r \in {0, 1}}
      [] w = "shutdown" ->
           {Opt(p, 0, 1, NoDedup, NoExpiry) : p \in {1, DefaultPriority}}
      [] w = "handler" ->
           {Opt(DefaultPriority, 0, 1, NoDedup, NoExpiry)}
      [] w = "transaction" ->
           {Opt(DefaultPriority, 0, 0, d, NoExpiry) : d \in {NoDedup, "d1"}}
      [] w = "range" ->
           {Opt(p, 0, 1, NoDedup, NoExpiry) :
              p \in {NoPriority, maxPriority, maxPriority + 1}}
      [] w = "claim" ->
           {Opt(DefaultPriority, d, 0, NoDedup, NoExpiry) : d \in {0, 1000}}
      [] w = "listener" ->
           {Opt(DefaultPriority, 0, 1, NoDedup, NoExpiry)}
      [] w = "stats" ->
           {Opt(DefaultPriority, 0, r, NoDedup, x) :
              r \in {0, 1}, x \in {NoExpiry, 500}}

\* the payloads handed to send: JavaScript values, named by their JSON text
Payloads(w) ==
    CASE w = "requeue" -> {"p1", "NaN"}
      [] w = "payload" -> {"p1", "null", Undefined}
      [] w = "batch" -> {"p1", Undefined}
      [] w = "transaction" -> {"p1", Undefined}
      [] OTHER -> {"p1"}

\* instants at which Date.now() / strftime('now') is read, in milliseconds
ClockPoints(w) ==
    CASE w = "priority" -> {0}
      [] w = "delay" -> {0, 500, 1000}
      [] w = "dedup" -> {0, 1000}
      [] w = "expiry" -> {0, 1000}
      [] w = "retry" -> {0, 61000}
      [] w = "timeout" -> {0, 61000}
      [] w = "requeue" -> {0}
      [] w = "payload" -> {0}
      [] w = "batch" -> {0, 1000}
      [] w = "stop" -> {0}
      [] w = "shutdown" -> {0}
      [] w = "handler" -> {0}
      [] w = "transaction" -> {0}
      [] w = "range" -> {0}
      [] w = "claim" -> {0}
      [] w = "listener" -> {0}
      [] w = "stats" -> {0, 1000}

\* abandoned handlers pile up in the timeout workload: one message fewer
SendCap(w) ==
    CASE w \in {"priority", "delay", "payload", "claim"} -> MaxIds
      [] w = "timeout" -> MaxBusy - 1
      [] OTHER -> MaxBusy

\* lastBatch, lastSend and lastOp describe the step that led to the state:
\* they are <<>>, NoSend and NoOp after a step that made no claim, no send
\* and ended no other call
NoRow == [status |-> "none"]
NoSend == [queue |-> "", payload |-> "", dedup |-> NoDedup, prior |-> {},
           result |-> 0, inserted |-> FALSE]
SendError == -1
NoOp == [op |-> "none"]
NoCall == [pc |-> "idle", attempts |-> 0, polls |-> 0]

Min(a, b) == IF a < b THEN a ELSE b

\* JSON.stringify: undefined has no JSON text (the result is undefined), NaN
\* becomes the text null; JSON.parse gives back the value the text names
JSONstringify(v) ==
    CASE v = Undefined -> Undefined
      [] v = "NaN" -> "null"
      [] OTHER -> v
JSONparse(text) == text
Sec(ms) == ms \div MsPerSec
Range(s) == {s[k] : k \in 1..Len(s)}

VARIABLES
    workload,        \* the workload of this behaviour (never changes)
    now,             \* Date.now() / strftime('now'), in milliseconds
    messages,        \* table messages: id -> row or NoRow
    messageStats,    \* table message_stats: queue -> row or NoRow
    deadLetters,     \* table dead_letter_messages: set of rows
    nextId,          \* next uuidv4 for a message
    nextDlq,         \* next uuidv4 for a dead-letter row
    cstate,          \* per registration: "new" | "active" | "stopped"
    attempts,        \* handler invocations and their outcome pipeline
    calls,           \* history: handler invocations per message id
    owners,          \* history: claims of an id since it last became pending
    lastBatch,       \* history: what fetchMessages returned in the latest step
    lastSend,        \* history: the send call of the latest step, its result
    consumers,       \* this.consumers: the registered consumer ids
    lastOp,          \* history: the other call that ended in the latest step
    isShuttingDown,  \* this.isShuttingDown
    shutdownCall,    \* the gracefulShutdown call: where it is in its loop
    state,           \* LocusMQ.state
    shutdownPromise, \* LocusMQ.shutdownPromise: "null" or how it settled
    startCalls,      \* start() calls in flight: awaited step -> how many
    shutdownStep     \* performShutdown: the step it awaits, or "idle"

vars == <<workload, messageStats, now, messages, deadLetters, nextId,
          nextDlq, cstate, attempts, calls, owners, lastBatch, lastSend,
          consumers, lastOp, isShuttingDown, shutdownCall, state,
          shutdownPromise, startCalls, shutdownStep>>

(* --------------------- consume() options per registration ------------- *)
batchSize(c) == IF c = 1 THEN 1 ELSE 2
concurrency(c) == 1              \* the default of consume
deadLetterQueue(c) ==
    IF c = 1 THEN [enabled |-> TRUE, maxRetries |-> 3]
             ELSE [enabled |-> FALSE, maxRetries |-> 1]
queueOf(c) == "q1"
pollInterval(c) == 1000          \* the default of consume

(* --------------------------- store operations ------------------------- *)
Exists(msgs, i) == msgs[i].status # "none"

\* UPDATE messages SET status = 'completed' ... WHERE id = ?
markMessageCompleted(msgs, i) ==
    IF Exists(msgs, i) THEN [msgs EXCEPT ![i].status = "completed"] ELSE msgs

\* mutant: the update writes 'pending' instead of 'failed'
markMessageFailed_leavesPending(msgs, i) ==
    IF Exists(msgs, i) THEN [msgs EXCEPT ![i].status = "pending"] ELSE msgs

\* UPDATE messages SET status = 'failed' ... WHERE id = ?
markMessageFailed(msgs, i) ==
    IF Exists(msgs, i) THEN [msgs EXCEPT ![i].status = "failed"] ELSE msgs

\* UPDATE messages SET status = 'pending', retries = retries + 1,
\*   available_at = strftime('%s','now') + (retries * 60) WHERE id = ?
\* (the right-hand sides read the row as it was before the update)
retryMessage(msgs, i, t) ==
    IF Exists(msgs, i)
    THEN [msgs EXCEPT ![i].status = "pending",
                      ![i].retries = @ + 1,
                      ![i].availableAt =
                          Sec(t) + (msgs[i].retries * BackoffSec)]
    ELSE msgs

\* mutant: the select forgets the status filter
FetchCandidates_anyStatus(msgs, q, t) ==
    {i \in Ids : /\ Exists(msgs, i)
                 /\ msgs[i].queue = q
                 /\ msgs[i].status \in {"pending", "processing"}
                 /\ msgs[i].availableAt <= Sec(t)}

\* WHERE queue_name = ? AND status = 'pending' AND available_at <= now
FetchCandidates(msgs, q, t) ==
    {i \in Ids : /\ Exists(msgs, i)
                 /\ msgs[i].queue = q
                 /\ msgs[i].status = "pending"
                 /\ msgs[i].availableAt <= Sec(t)}

\* mutant: ORDER BY priority ASC
OrderedBefore_ascending(msgs, i, j) ==
    \/ msgs[i].priority < msgs[j].priority
    \/ /\ msgs[i].priority = msgs[j].priority
       /\ msgs[i].createdAt < msgs[j].createdAt

\* ORDER BY priority DESC, created_at ASC: i is strictly before j
OrderedBefore(msgs, i, j) ==
    \/ msgs[i].priority > msgs[j].priority
    \/ /\ msgs[i].priority = msgs[j].priority
       /\ msgs[i].createdAt < msgs[j].createdAt

\* mutant: the select without LIMIT
fetchMessages_noLimit(msgs, q, limit, t) ==
    LET cand == FetchCandidates(msgs, q, t)
        n == Cardinality(cand)
    IN {s \in [1..n -> cand] :
          \A k, l \in 1..n : k < l =>
                /\ s[k] # s[l]
                /\ ~OrderedBefore(msgs, s[l], s[k])}

\* the result sets SELECT ... ORDER BY ... LIMIT ? can produce; rows that tie
\* on (priority, created_at) come in an order the query does not fix
fetchMessages(msgs, q, limit, t) ==
    LET cand == FetchCandidates(msgs, q, t)
        n == Min(limit, Cardinality(cand))
    IN {s \in [1..n -> cand] :
          /\ \A k, l \in 1..n : k < l =>
                /\ s[k] # s[l]
                /\ ~OrderedBefore(msgs, s[l], s[k])
          /\ \A j \in cand \ Range(s) : \A k \in 1..n :
                ~OrderedBefore(msgs, j, s[k])}

\* mutant: the claim returns the rows without updating their status
ClaimRows_noUpdate(msgs, batch) == msgs

\* UPDATE messages SET status = 'processing' WHERE id = ?  for each row
ClaimRows(msgs, batch) ==
    [i \in Ids |-> IF i \in Range(batch)
                   THEN [msgs[i] EXCEPT !.status = "processing"]
                   ELSE msgs[i]]

\* message_stats rows; getQueueStats answers zeros when the row is missing
StatQueues == Queues
NoStats == [total |-> -1]
ZeroStats == [total |-> 0, pending |-> 0, processing |-> 0, completed |-> 0,
              failed |-> 0, deadLetter |-> 0]

CountStatus(msgs, q, st) ==
    Cardinality({i \in Ids : /\ Exists(msgs, i)
                             /\ msgs[i].queue = q
                             /\ msgs[i].status = st})

\* trigger insert_message_stats: per inserted row, INSERT OR IGNORE the row
\* of its queue, then total_messages + 1 and pending_messages + 1
insert_message_stats(row, n) ==
    IF n = 0 THEN row
    ELSE LET r == IF row = NoStats THEN ZeroStats ELSE row
         IN [r EXCEPT !.total = @ + n, !.pending = @ + n]

\* trigger update_message_stats: after UPDATE OF status of a row, the four
\* status counts of its queue are recounted (nothing else is)
update_message_stats(row, msgs, q) ==
    IF row = NoStats THEN row
    ELSE [row EXCEPT !.pending = CountStatus(msgs, q, "pending"),
                     !.processing = CountStatus(msgs, q, "processing"),
                     !.completed = CountStatus(msgs, q, "completed"),
                     !.failed = CountStatus(msgs, q, "failed")]

\* createTriggers: the state of message_stats after a statement that turned
\* table messages from old to new and ran UPDATE ... SET status on the ids
\* in updated; there is no trigger on DELETE and none on dead_letter_messages
\* (the table is write-only for everything but getQueueStats, and is
\* carried in the workload that calls getQueueStats only)
createTriggers(stats, old, new, updated) ==
    IF workload # "stats" THEN stats
    ELSE
    [q \in StatQueues |->
       LET inserted == {i \in Ids : /\ ~Exists(old, i) /\ Exists(new, i)
                                    /\ new[i].queue = q}
           row == insert_message_stats(stats[q], Cardinality(inserted))
       IN IF \E i \in updated : Exists(old, i) /\ old[i].queue = q
          THEN update_message_stats(row, new, q)
          ELSE row]

\* SELECT * FROM message_stats WHERE queue_name = ?, or zeros
getQueueStats(q) ==
    IF messageStats[q] = NoStats THEN ZeroStats ELSE messageStats[q]

\* history of ownership: a claim adds an owner, a write of status 'pending'
\* (insert, retry) clears the owners
OwnersAfter(old, new, claimed) ==
    [i \in Ids |-> IF i \in claimed THEN owners[i] + 1
                   ELSE IF /\ new[i].status = "pending"
                           /\ old[i].status # "pending"
                   THEN 0
                   ELSE owners[i]]

(* ---------------------------- application ----------------------------- *)
\* enum AppState
AppState == {"initialized", "starting", "running", "stopping", "stopped",
             "error"}

\* the awaits of start(): databaseManager.initialize(), messageQueue.start()
StartSteps == {"initialize", "messageQueue"}

\* the operations of LocusMQ that begin with this.ensureRunning()
QueueOperations == {"sendMessage", "sendBatch", "consume", "stopConsumer",
                    "getQueueStats"}

(* -------------------------------- Init -------------------------------- *)
InitFor(w) ==
    /\ workload = w
    /\ now = 0
    /\ messages = [i \in Ids |-> NoRow]
    /\ messageStats = [q \in StatQueues |-> NoStats]
    /\ deadLetters = {}
    /\ nextId = 1
    /\ nextDlq = 1
    /\ cstate = [c \in Consumers |-> "new"]
    /\ attempts = {}
    /\ calls = [i \in Ids |-> 0]
    /\ owners = [i \in Ids |-> 0]
    /\ lastBatch = <<>>
    /\ lastSend = NoSend
    /\ consumers = {}
    /\ lastOp = NoOp
    /\ isShuttingDown = FALSE
    /\ shutdownCall = NoCall
    /\ state = "initialized"
    /\ shutdownPromise = "null"
    /\ startCalls = [s \in StartSteps |-> 0]
    /\ shutdownStep = "idle"

(* ------------------------------- clock -------------------------------- *)
Tick ==
    /\ \E t \in ClockPoints(workload) : t > now /\ now' = t
    /\ UNCHANGED <<workload, state, shutdownPromise, startCalls, shutdownStep,
                   messageStats, isShuttingDown, shutdownCall, messages,
                   deadLetters, nextId, nextDlq, cstate, consumers, attempts,
                   calls, owners>>
    /\ lastBatch' = <<>>
    /\ lastSend' = NoSend
    /\ lastOp' = NoOp

(* ------------------------------ producer ------------------------------ *)
\* rows the dedup query of send can return as `existing`: the non-failed rows
\* of (queue, dedup) with the greatest created_at (ORDER BY created_at DESC
\* LIMIT 1; the order among equal created_at is not fixed by the query)
DedupLatest(msgs, q, d) ==
    LET rows == {i \in Ids : /\ Exists(msgs, i)
                             /\ msgs[i].queue = q
                             /\ msgs[i].dedup = d
                             /\ msgs[i].status # "failed"}
    IN {i \in rows : \A j \in rows : msgs[j].createdAt <= msgs[i].createdAt}

NonFailedFor(msgs, q, d) ==
    {i \in Ids : /\ Exists(msgs, i)
                 /\ msgs[i].queue = q
                 /\ msgs[i].dedup = d
                 /\ msgs[i].status # "failed"}

\* mutant: the throw for a duplicate leaves the inserted row behind
SendOutcomes_keepsInsert(msgs, id, q, payload, o, t) ==
    LET row == [status |-> "pending", queue |-> q,
                payload |-> JSONstringify(payload),
                metadata |-> IF o.metadata = NoMeta THEN NoMeta
                             ELSE JSONstringify(o.metadata),
                priority |-> IF o.priority = NoPriority THEN DefaultPriority
                             ELSE o.priority,
                retries |-> 0, maxRetries |-> o.maxRetries,
                createdAt |-> Sec(t),
                availableAt |-> Sec(t + o.delay),
                dedup |-> o.dedup,
                expiresAt |-> IF o.expiresAt = NoExpiry THEN NoExpiry
                              ELSE Sec(o.expiresAt),
                dueMs |-> t + o.delay]
        inserted == [msgs EXCEPT ![id] = row]
    IN IF JSONstringify(payload) = Undefined
       THEN \* stmt.run cannot store undefined in payload TEXT NOT NULL
            {[ok |-> FALSE, messages |-> msgs]}
       ELSE {IF existing # id
             THEN [ok |-> FALSE, messages |-> inserted]
             ELSE [ok |-> TRUE, messages |-> inserted] :
               existing \in (IF o.dedup = NoDedup THEN {id}
                             ELSE DedupLatest(inserted, q, o.dedup))}

\* the transaction of send: what it can leave in messages, and whether it
\* returns the new id (ok) or throws
SendOutcomes(msgs, id, q, payload, o, t) ==
    LET row == [status |-> "pending", queue |-> q,
                payload |-> JSONstringify(payload),
                metadata |-> IF o.metadata = NoMeta THEN NoMeta
                             ELSE JSONstringify(o.metadata),
                priority |-> IF o.priority = NoPriority THEN DefaultPriority
                             ELSE o.priority,
                retries |-> 0, maxRetries |-> o.maxRetries,
                createdAt |-> Sec(t),
                availableAt |-> Sec(t + o.delay),
                dedup |-> o.dedup,
                expiresAt |-> IF o.expiresAt = NoExpiry THEN NoExpiry
                              ELSE Sec(o.expiresAt),
                dueMs |-> t + o.delay]
        inserted == [msgs EXCEPT ![id] = row]
    IN IF JSONstringify(payload) = Undefined
       THEN \* stmt.run cannot store undefined in payload TEXT NOT NULL
            {[ok |-> FALSE, messages |-> msgs]}
       ELSE {IF existing # id
             THEN \* throw inside the transaction: the insert is rolled back
                  [ok |-> FALSE, messages |-> msgs]
             ELSE [ok |-> TRUE, messages |-> inserted] :
               existing \in (IF o.dedup = NoDedup THEN {id}
                             ELSE DedupLatest(inserted, q, o.dedup))}

send(q, payload, prio, delay, maxR, dedup, exp, meta) ==
    /\ nextId <= SendCap(workload)
    /\ LET id == nextId
           o == [priority |-> prio, delay |-> delay, maxRetries |-> maxR,
                 dedup |-> dedup, expiresAt |-> exp, metadata |-> meta]
           prior == IF dedup = NoDedup THEN {}
                    ELSE NonFailedFor(messages, q, dedup)
           result(r, ins) == [queue |-> q, payload |-> payload,
                              dedup |-> dedup, prior |-> prior,
                              result |-> r, inserted |-> ins]
       IN \E out \in SendOutcomes(messages, id, q, payload, o, now) :
            IF out.ok
            THEN /\ messages' = out.messages
                 /\ owners' = OwnersAfter(messages, out.messages, {})
                 /\ messageStats' =
                        createTriggers(messageStats, messages, out.messages, {})
                 /\ nextId' = nextId + 1
                 /\ lastSend' = result(id, TRUE)
            ELSE /\ messages' = out.messages
                 /\ owners' = OwnersAfter(messages, out.messages, {})
                 /\ messageStats' =
                        createTriggers(messageStats, messages, out.messages, {})
                 /\ lastSend' = result(SendError, FALSE)
                 /\ UNCHANGED nextId
    /\ UNCHANGED <<workload, state, shutdownPromise, startCalls, shutdownStep,
                   isShuttingDown, shutdownCall, now, deadLetters, nextDlq,
                   cstate, consumers, attempts, calls>>
    /\ lastBatch' = <<>>
    /\ lastOp' = NoOp

Send ==
    \E q \in QueuesOf(workload), p \in Payloads(workload),
       o \in SendOptions(workload) :
        send(q, p, o.priority, o.delay, o.maxRetries, o.dedup, o.expiresAt,
             o.metadata)

\* the BatchMessage lists handed to sendBatch
BatchItems(w) ==
    {[payload |-> p, options |-> o] : p \in Payloads(w), o \in SendOptions(w)}

BatchInputs(w) ==
    UNION {[1..n -> BatchItems(w)] : n \in 0..MaxBatch}

\* mutant: a failing item is not caught and rejects the whole call
ItemSettled_rethrows(acc, k, out) ==
    IF out.ok
    THEN [acc EXCEPT !.messages = out.messages,
                     !.nextId = @ + 1,
                     !.successful = Append(@, acc.nextId)]
    ELSE [acc EXCEPT !.threw = TRUE]

\* item k of the list has been sent: successful.push(messageId) or
\* failed.push({message: msg, error})
ItemSettled(acc, k, out) ==
    IF out.ok
    THEN [acc EXCEPT !.messages = out.messages,
                     !.nextId = @ + 1,
                     !.successful = Append(@, acc.nextId)]
    ELSE [acc EXCEPT !.failed = Append(@, k)]

\* messages.map(async (msg) => ...): the sends run one after the other, in
\* list order, each in its own transaction
RECURSIVE BatchOutcomes(_, _, _, _, _)
BatchOutcomes(acc, q, items, k, t) ==
    IF k > Len(items)
    THEN {acc}
    ELSE UNION {BatchOutcomes(ItemSettled(acc, k, out), q, items, k + 1, t) :
                  out \in SendOutcomes(acc.messages, acc.nextId, q,
                                       items[k].payload, items[k].options, t)}

sendBatch(q, items) ==
    /\ nextId + Len(items) <= SendCap(workload) + 1
    /\ \E res \in BatchOutcomes([messages |-> messages, nextId |-> nextId,
                                 successful |-> <<>>, failed |-> <<>>,
                                 threw |-> FALSE], q, items, 1, now) :
          /\ messages' = res.messages
          /\ nextId' = res.nextId
          /\ lastOp' = [op |-> "sendBatch", n |-> Len(items),
                        successful |-> res.successful,
                        failed |-> res.failed, threw |-> res.threw]
    /\ owners' = OwnersAfter(messages, messages', {})
    /\ messageStats' = createTriggers(messageStats, messages, messages', {})
    /\ UNCHANGED <<workload, state, shutdownPromise, startCalls, shutdownStep,
                   isShuttingDown, shutdownCall, now, deadLetters, nextDlq,
                   cstate, consumers, attempts, calls>>
    /\ lastBatch' = <<>>
    /\ lastSend' = NoSend

SendBatch ==
    \E q \in Queues, items \in BatchInputs(workload) : sendBatch(q, items)

(* ------------------------------ consumer ------------------------------ *)
\* the setTimeout(processMessages, delay) that ends a poll cycle: an empty
\* fetch re-arms after pollInterval; with messages, chunk.map(p => p()) calls
\* a promise, and the TypeError lands in the catch block, which re-arms after
\* pollInterval * 2
Rescheduled(c, batch) ==
    [op |-> "processMessages", pollInterval |-> pollInterval(c),
     claimed |-> Len(batch), threw |-> batch # <<>>,
     delay |-> IF batch = <<>> THEN pollInterval(c)
               ELSE pollInterval(c) * BackoffFactor]

\* if (!isActive || this.isShuttingDown) return;  no timer is set
NoTimer == -1
ReturnedAtOnce(c) ==
    [op |-> "processMessages", pollInterval |-> pollInterval(c),
     claimed |-> 0, threw |-> FALSE, delay |-> NoTimer]

\* the try block of processMessages: the claim, then every claimed message is
\* handed to processMessage (which calls the handler at once), in batch order
PollCycle(c) ==
    \E batch \in fetchMessages(messages, queueOf(c), batchSize(c), now) :
        /\ messages' = ClaimRows(messages, batch)
        /\ owners' = OwnersAfter(messages, messages', Range(batch))
        /\ messageStats' =
               createTriggers(messageStats, messages, messages', Range(batch))
        /\ attempts' = attempts \cup
              {[c |-> c, id |-> batch[k], queue |-> messages[batch[k]].queue,
                payload |-> JSONparse(messages[batch[k]].payload),
                metadata |-> IF messages[batch[k]].metadata = NoMeta
                             THEN Undefined
                             ELSE JSONparse(messages[batch[k]].metadata),
                retries |-> messages[batch[k]].retries,
                maxRetries |-> messages[batch[k]].maxRetries,
                phase |-> "handler", running |-> TRUE, ops |-> <<>>] :
                  k \in 1..Len(batch)}
        /\ calls' = [i \in Ids |-> IF i \in Range(batch) THEN calls[i] + 1
                                   ELSE calls[i]]
        /\ lastBatch' = batch
        /\ lastOp' = Rescheduled(c, batch)

\* mutant: processMessages does not look at isShuttingDown
processMessages_ignoresShutdown(c) == PollCycle(c)

\* one run of processMessages of an active registration
processMessages(c) ==
    IF isShuttingDown
    THEN /\ UNCHANGED <<messages, messageStats, owners, attempts, calls>>
         /\ lastBatch' = <<>>
         /\ lastOp' = ReturnedAtOnce(c)
    ELSE PollCycle(c)

\* consume: the registration and the first run of processMessages
Consume(c) ==
    /\ cstate[c] = "new"
    /\ cstate' = [cstate EXCEPT ![c] = "active"]
    /\ consumers' = consumers \cup {c}
    /\ processMessages(c)
    /\ UNCHANGED <<workload, state, shutdownPromise, startCalls, shutdownStep,
                   isShuttingDown, shutdownCall, now, deadLetters, nextId,
                   nextDlq>>
    /\ lastSend' = NoSend

\* mutant: the timer callback does not look at isActive
Poll_ignoresStop(c) ==
    /\ cstate[c] \in {"active", "stopped"}
    /\ ~isShuttingDown
    /\ processMessages(c)
    /\ UNCHANGED <<workload, state, shutdownPromise, startCalls, shutdownStep,
                   isShuttingDown, shutdownCall, now, deadLetters, nextId,
                   nextDlq, cstate, consumers>>
    /\ lastSend' = NoSend

\* the timer set by processMessages fires: a registration that was stopped
\* or finds isShuttingDown set returns without a timer, else the next run
Poll(c) ==
    /\ cstate[c] = "active"
    /\ ~isShuttingDown
    /\ processMessages(c)
    /\ UNCHANGED <<workload, state, shutdownPromise, startCalls, shutdownStep,
                   isShuttingDown, shutdownCall, now, deadLetters, nextId,
                   nextDlq, cstate, consumers>>
    /\ lastSend' = NoSend

\* fetchMessages throws (the claim transaction fails): nothing is claimed and
\* the catch block re-arms the timer after pollInterval * 2
ClaimFails(c) ==
    /\ cstate[c] = "active"
    /\ ~isShuttingDown
    /\ lastOp' = [op |-> "processMessages", pollInterval |-> pollInterval(c),
                  claimed |-> 0, threw |-> TRUE,
                  delay |-> pollInterval(c) * BackoffFactor]
    /\ UNCHANGED <<workload, state, shutdownPromise, startCalls, shutdownStep,
                   messageStats, isShuttingDown, shutdownCall, now, messages,
                   deadLetters, nextId, nextDlq, cstate, consumers, attempts,
                   calls, owners>>
    /\ lastBatch' = <<>>
    /\ lastSend' = NoSend

\* mutant: the stop function only clears isActive
Stop_keepsRegistration(c) ==
    /\ cstate[c] = "active"
    /\ cstate' = [cstate EXCEPT ![c] = "stopped"]
    /\ lastOp' = [op |-> "stop", c |-> c]
    /\ UNCHANGED <<workload, state, shutdownPromise, startCalls, shutdownStep,
                   messageStats, isShuttingDown, shutdownCall, now, messages,
                   deadLetters, nextId, nextDlq, attempts, calls, owners,
                   consumers>>
    /\ lastBatch' = <<>>
    /\ lastSend' = NoSend

\* the stop function returned by consume
Stop(c) ==
    /\ cstate[c] = "active"
    /\ cstate' = [cstate EXCEPT ![c] = "stopped"]
    /\ consumers' = consumers \ {c}
    /\ lastOp' = [op |-> "stop", c |-> c]
    /\ UNCHANGED <<workload, state, shutdownPromise, startCalls, shutdownStep,
                   messageStats, isShuttingDown, shutdownCall, now, messages,
                   deadLetters, nextId, nextDlq, attempts, calls, owners>>
    /\ lastBatch' = <<>>
    /\ lastSend' = NoSend

\* the stop function called again: isActive = false once more and
\* Set.delete of an id that is not in the set
StopAgain(c) ==
    /\ cstate[c] = "stopped"
    /\ consumers' = consumers \ {c}
    /\ lastOp' = [op |-> "stop", c |-> c]
    /\ UNCHANGED <<workload, state, shutdownPromise, startCalls, shutdownStep,
                   messageStats, isShuttingDown, shutdownCall, now, messages,
                   deadLetters, nextId, nextDlq, cstate, attempts, calls,
                   owners>>
    /\ lastBatch' = <<>>
    /\ lastSend' = NoSend

\* the handler resolves before the timeout: markMessageCompleted
HandlerResolve(a) ==
    /\ a.phase = "handler"
    /\ messages' = markMessageCompleted(messages, a.id)
    /\ owners' = OwnersAfter(messages, messages', {})
    /\ messageStats' =
           createTriggers(messageStats, messages, messages', {a.id})
    /\ attempts' = attempts \ {a}
    /\ UNCHANGED <<workload, state, shutdownPromise, startCalls, shutdownStep,
                   isShuttingDown, shutdownCall, now, deadLetters, nextId,
                   nextDlq, cstate, consumers, calls>>
    /\ lastBatch' = <<>>
    /\ lastSend' = NoSend
    /\ lastOp' = NoOp

\* the handler resolves before the timeout and markMessageCompleted has run;
\* logger.debug and emit('message:processed') of the same try block are
\* still to come
MessageCompleted(a) ==
    /\ a.phase = "handler"
    /\ messages' = markMessageCompleted(messages, a.id)
    /\ owners' = OwnersAfter(messages, messages', {})
    /\ messageStats' =
           createTriggers(messageStats, messages, messages', {a.id})
    /\ attempts' = (attempts \ {a}) \cup
                   {[a EXCEPT !.phase = "emit", !.running = FALSE,
                              !.ops = Append(@, "markMessageCompleted")]}
    /\ UNCHANGED <<workload, state, shutdownPromise, startCalls, shutdownStep,
                   isShuttingDown, shutdownCall, now, deadLetters, nextId,
                   nextDlq, cstate, consumers, calls>>
    /\ lastBatch' = <<>>
    /\ lastSend' = NoSend
    /\ lastOp' = NoOp

\* every listener of 'message:processed' returns: processMessage resolves
ListenerReturns(a) ==
    /\ a.phase = "emit"
    /\ attempts' = attempts \ {a}
    /\ UNCHANGED <<workload, state, shutdownPromise, startCalls, shutdownStep,
                   messageStats, isShuttingDown, shutdownCall, now, messages,
                   deadLetters, nextId, nextDlq, cstate, consumers, calls,
                   owners>>
    /\ lastBatch' = <<>>
    /\ lastSend' = NoSend
    /\ lastOp' = NoOp

\* a listener of 'message:processed' throws: emit throws inside the try
\* block, and the catch block of processMessage runs markMessageFailed and
\* rethrows
ListenerThrows(a) ==
    /\ a.phase = "emit"
    /\ messages' = markMessageFailed(messages, a.id)
    /\ owners' = OwnersAfter(messages, messages', {})
    /\ messageStats' =
           createTriggers(messageStats, messages, messages', {a.id})
    /\ attempts' = (attempts \ {a}) \cup
                   {[a EXCEPT !.phase = "failed",
                              !.ops = Append(@, "markMessageFailed")]}
    /\ UNCHANGED <<workload, state, shutdownPromise, startCalls, shutdownStep,
                   isShuttingDown, shutdownCall, now, deadLetters, nextId,
                   nextDlq, cstate, consumers, calls>>
    /\ lastBatch' = <<>>
    /\ lastSend' = NoSend
    /\ lastOp' = NoOp

\* mutant: the rejection makes the poll cycle drop the rest of its batch
HandlerReject_abortsBatch(a) ==
    /\ a.phase = "handler"
    /\ messages' = markMessageFailed(messages, a.id)
    /\ owners' = OwnersAfter(messages, messages', {})
    /\ messageStats' =
           createTriggers(messageStats, messages, messages', {a.id})
    /\ attempts' = {b \in attempts : b.c # a.c \/ b.phase # "handler"} \cup
                   {[a EXCEPT !.phase = "failed", !.running = FALSE,
                              !.ops = Append(@, "markMessageFailed")]}
    /\ UNCHANGED <<workload, state, shutdownPromise, startCalls, shutdownStep,
                   isShuttingDown, shutdownCall, now, deadLetters, nextId,
                   nextDlq, cstate, consumers, calls>>
    /\ lastBatch' = <<>>
    /\ lastSend' = NoSend
    /\ lastOp' = NoOp

\* the handler throws or rejects: catch block of processMessage
HandlerReject(a) ==
    /\ a.phase = "handler"
    /\ messages' = markMessageFailed(messages, a.id)
    /\ owners' = OwnersAfter(messages, messages', {})
    /\ messageStats' =
           createTriggers(messageStats, messages, messages', {a.id})
    /\ attempts' = (attempts \ {a}) \cup
                   {[a EXCEPT !.phase = "failed", !.running = FALSE,
                              !.ops = Append(@, "markMessageFailed")]}
    /\ UNCHANGED <<workload, state, shutdownPromise, startCalls, shutdownStep,
                   isShuttingDown, shutdownCall, now, deadLetters, nextId,
                   nextDlq, cstate, consumers, calls>>
    /\ lastBatch' = <<>>
    /\ lastSend' = NoSend
    /\ lastOp' = NoOp

\* mutant: the timeout is swallowed, nothing is marked and nothing rethrown
ProcessingTimeout_swallowed(a) ==
    /\ a.phase = "handler"
    /\ attempts' = attempts \ {a}
    /\ UNCHANGED <<workload, state, shutdownPromise, startCalls, shutdownStep,
                   messageStats, isShuttingDown, shutdownCall, now, messages,
                   deadLetters, nextId, nextDlq, cstate, consumers, calls,
                   owners>>
    /\ lastBatch' = <<>>
    /\ lastSend' = NoSend
    /\ lastOp' = NoOp

\* the timeout promise wins the race; the handler keeps running
ProcessingTimeout(a) ==
    /\ a.phase = "handler"
    /\ messages' = markMessageFailed(messages, a.id)
    /\ owners' = OwnersAfter(messages, messages', {})
    /\ messageStats' =
           createTriggers(messageStats, messages, messages', {a.id})
    /\ attempts' = (attempts \ {a}) \cup
                   {[a EXCEPT !.phase = "failed",
                              !.ops = Append(@, "markMessageFailed")]}
    /\ UNCHANGED <<workload, state, shutdownPromise, startCalls, shutdownStep,
                   isShuttingDown, shutdownCall, now, deadLetters, nextId,
                   nextDlq, cstate, consumers, calls>>
    /\ lastBatch' = <<>>
    /\ lastSend' = NoSend
    /\ lastOp' = NoOp

\* a handler that was abandoned by its timeout returns
AbandonedHandlerEnds(a) ==
    /\ a.phase # "handler"
    /\ a.running
    /\ attempts' = IF a.phase = "done" THEN attempts \ {a}
                   ELSE (attempts \ {a}) \cup {[a EXCEPT !.running = FALSE]}
    /\ UNCHANGED <<workload, state, shutdownPromise, startCalls, shutdownStep,
                   messageStats, isShuttingDown, shutdownCall, now, messages,
                   deadLetters, nextId, nextDlq, cstate, consumers, calls,
                   owners>>
    /\ lastBatch' = <<>>
    /\ lastSend' = NoSend
    /\ lastOp' = NoOp

\* mutant: the dead-letter insert without the delete of the original
moveToDeadLetter_keepsRow(a) ==
    /\ deadLetters' = deadLetters \cup
           {[id |-> nextDlq, originalId |-> a.id, queue |-> a.queue,
             payload |-> JSONstringify(a.payload),
             metadata |-> IF a.metadata = Undefined THEN NoMeta
                          ELSE JSONstringify(a.metadata),
             retries |-> a.retries]}
    /\ nextDlq' = nextDlq + 1
    /\ messages' = messages

\* INSERT INTO dead_letter_messages ...; DELETE FROM messages WHERE id = ?
moveToDeadLetter(a) ==
    /\ deadLetters' = deadLetters \cup
           {[id |-> nextDlq, originalId |-> a.id, queue |-> a.queue,
             payload |-> JSONstringify(a.payload),
             metadata |-> IF a.metadata = Undefined THEN NoMeta
                          ELSE JSONstringify(a.metadata),
             retries |-> a.retries]}
    /\ nextDlq' = nextDlq + 1
    /\ messages' = [messages EXCEPT ![a.id] = NoRow]

\* mutant: Math.max instead of Math.min
effectiveMaxRetries_max(a) ==
    IF a.maxRetries > deadLetterQueue(a.c).maxRetries
    THEN a.maxRetries ELSE deadLetterQueue(a.c).maxRetries

\* const maxRetries = Math.min(message.maxRetries, deadLetterConfig.maxRetries)
effectiveMaxRetries(a) ==
    Min(a.maxRetries, deadLetterQueue(a.c).maxRetries)

\* the store operations invoked for a failed attempt, from the catch block of
\* processMessage to the end of handleMessageError
FailureHandled(a, operation) ==
    [op |-> "handleMessageError", id |-> a.id, c |-> a.c,
     ops |-> Append(a.ops, operation)]

handleMessageError(a) ==
    /\ a.phase = "failed"
    /\ IF a.retries < effectiveMaxRetries(a)
       THEN /\ messages' = retryMessage(messages, a.id, now)
            /\ UNCHANGED <<deadLetters, nextDlq>>
            /\ lastOp' = FailureHandled(a, "retryMessage")
       ELSE IF deadLetterQueue(a.c).enabled
       THEN /\ nextDlq <= MaxDlq
            /\ moveToDeadLetter(a)
            /\ lastOp' = FailureHandled(a, "moveToDeadLetter")
       ELSE /\ messages' = markMessageFailed(messages, a.id)
            /\ UNCHANGED <<deadLetters, nextDlq>>
            /\ lastOp' = FailureHandled(a, "markMessageFailed")
    /\ owners' = OwnersAfter(messages, messages', {})
    /\ messageStats' = createTriggers(messageStats, messages, messages',
           IF lastOp'.ops[Len(lastOp'.ops)] = "moveToDeadLetter"
           THEN {} ELSE {a.id})
    /\ attempts' = IF a.running
                   THEN (attempts \ {a}) \cup {[a EXCEPT !.phase = "done"]}
                   ELSE attempts \ {a}
    /\ UNCHANGED <<workload, state, shutdownPromise, startCalls, shutdownStep,
                   isShuttingDown, shutdownCall, now, nextId, cstate,
                   consumers, calls>>
    /\ lastBatch' = <<>>
    /\ lastSend' = NoSend

(* --------------------------- maintenance ------------------------------ *)
\* dead-letter row ids a caller passes: the issued ones and one that never
\* existed
DlqIds == 1..nextDlq

\* mutant: the new message keeps the retries of the dead-letter row
RequeuedRow_keepsRetries(d, t) ==
    [status |-> "pending", queue |-> d.queue, payload |-> d.payload,
     metadata |-> d.metadata, priority |-> DefaultPriority,
     retries |-> d.retries, maxRetries |-> RequeueMaxRetries,
     createdAt |-> Sec(t), availableAt |-> Sec(t),
     dedup |-> NoDedup, expiresAt |-> NoExpiry, dueMs |-> t]

\* INSERT INTO messages (id, queue_name, payload, priority, retries,
\*   max_retries, created_at, available_at, metadata): status takes the
\* column default 'pending', deduplication_id and expires_at are NULL
RequeuedRow(d, t) ==
    [status |-> "pending", queue |-> d.queue, payload |-> d.payload,
     metadata |-> d.metadata, priority |-> DefaultPriority,
     retries |-> 0, maxRetries |-> RequeueMaxRetries,
     createdAt |-> Sec(t), availableAt |-> Sec(t),
     dedup |-> NoDedup, expiresAt |-> NoExpiry, dueMs |-> t]

\* mutant: the dead-letter row is not deleted
DeleteDeadLetter_keepsRow(rows, dlqId) == rows

\* DELETE FROM dead_letter_messages WHERE id = ?
DeleteDeadLetter(rows, dlqId) == {d \in rows : d.id # dlqId}

requeueDeadLetterMessage(dlqId) ==
    /\ IF \E d \in deadLetters : d.id = dlqId
       THEN LET dlqMessage == CHOOSE d \in deadLetters : d.id = dlqId
            IN /\ nextId <= SendCap(workload)
               /\ messages' = [messages EXCEPT
                                  ![nextId] = RequeuedRow(dlqMessage, now)]
               /\ nextId' = nextId + 1
               /\ deadLetters' = DeleteDeadLetter(deadLetters, dlqId)
               /\ lastOp' = [op |-> "requeueDeadLetterMessage",
                             id |-> dlqId, result |-> "ok"]
       ELSE \* throw new Error('Dead letter message not found: ...')
            /\ UNCHANGED <<messages, nextId, deadLetters>>
            /\ lastOp' = [op |-> "requeueDeadLetterMessage",
                          id |-> dlqId, result |-> "not found"]
    /\ owners' = OwnersAfter(messages, messages', {})
    /\ messageStats' = createTriggers(messageStats, messages, messages', {})
    /\ UNCHANGED <<workload, state, shutdownPromise, startCalls, shutdownStep,
                   isShuttingDown, shutdownCall, now, nextDlq, cstate,
                   consumers, attempts, calls>>
    /\ lastBatch' = <<>>
    /\ lastSend' = NoSend

\* the rows of WHERE expires_at IS NOT NULL AND expires_at < now
Expired(msgs, t) ==
    {i \in Ids : /\ Exists(msgs, i)
                 /\ msgs[i].expiresAt # NoExpiry
                 /\ msgs[i].expiresAt < Sec(t)}

\* cleanupExpiredMessages(queueName?): without the argument the statement is
\* DELETE FROM messages WHERE expires_at ... and the call returns
\* result.changes; with it the text is "... WHERE expires_at ... WHERE
\* queue_name = ?", which prepare rejects as a syntax error, and the call
\* rejects
cleanupExpiredMessages(queueName) ==
    /\ IF queueName = Undefined
       THEN /\ messages' = [i \in Ids |-> IF i \in Expired(messages, now)
                                          THEN NoRow ELSE messages[i]]
            /\ lastOp' = [op |-> "cleanupExpiredMessages",
                          queueName |-> queueName, threw |-> FALSE,
                          changes |-> Cardinality(Expired(messages, now))]
       ELSE /\ messages' = messages
            /\ lastOp' = [op |-> "cleanupExpiredMessages",
                          queueName |-> queueName, threw |-> TRUE,
                          changes |-> 0]
    /\ owners' = OwnersAfter(messages, messages', {})
    /\ messageStats' = createTriggers(messageStats, messages, messages', {})
    /\ UNCHANGED <<workload, state, shutdownPromise, startCalls, shutdownStep,
                   isShuttingDown, shutdownCall, now, deadLetters, nextId,
                   nextDlq, cstate, consumers, attempts, calls>>
    /\ lastBatch' = <<>>
    /\ lastSend' = NoSend

(* ------------------------------ shutdown ------------------------------ *)
\* mutant: registrations whose poll loop ended on isShuttingDown do not count
getActiveConsumerCount_polling(registered) ==
    IF isShuttingDown THEN 0 ELSE Cardinality(registered)

\* Array.from(this.consumers.values()).reduce((sum, set) => sum + set.size, 0)
getActiveConsumerCount(registered) == Cardinality(registered)

\* gracefulShutdown at its while condition with `attempts` waits behind it:
\* attempts < 30 && this.getActiveConsumerCount() > 0 (the count is read
\* only when the first operand holds)
ShutdownLoop(n, polls, registered) ==
    IF n < ShutdownAttempts
    THEN [pc |-> IF getActiveConsumerCount(registered) > 0
                 THEN "waiting" ELSE "done",
          attempts |-> n, polls |-> polls + 1]
    ELSE [pc |-> "done", attempts |-> n, polls |-> polls]

\* the call of gracefulShutdown up to its first await (or to its end)
gracefulShutdown ==
    /\ shutdownCall.pc # "waiting"
    /\ isShuttingDown' = TRUE
    /\ shutdownCall' = ShutdownLoop(0, 0, consumers)
    /\ UNCHANGED <<workload, state, shutdownPromise, startCalls, shutdownStep,
                   messageStats, now, messages, deadLetters, nextId, nextDlq,
                   cstate, consumers, attempts, calls, owners>>
    /\ lastBatch' = <<>>
    /\ lastSend' = NoSend
    /\ lastOp' = [op |-> "gracefulShutdown"]

\* mutant: the loop forgets attempts++
ShutdownWait_noCount ==
    /\ shutdownCall.pc = "waiting"
    /\ shutdownCall' = ShutdownLoop(shutdownCall.attempts,
                                    shutdownCall.polls, consumers)
    /\ UNCHANGED <<workload, state, shutdownPromise, startCalls, shutdownStep,
                   messageStats, isShuttingDown, now, messages, deadLetters,
                   nextId, nextDlq, cstate, consumers, attempts, calls,
                   owners>>
    /\ lastBatch' = <<>>
    /\ lastSend' = NoSend
    /\ lastOp' = NoOp

\* the 1000 ms timer of the loop body fires: attempts++ and the condition
\* again
ShutdownWait ==
    /\ shutdownCall.pc = "waiting"
    /\ shutdownCall' = ShutdownLoop(shutdownCall.attempts + 1,
                                    shutdownCall.polls, consumers)
    /\ UNCHANGED <<workload, state, shutdownPromise, startCalls, shutdownStep,
                   messageStats, isShuttingDown, now, messages, deadLetters,
                   nextId, nextDlq, cstate, consumers, attempts, calls,
                   owners>>
    /\ lastBatch' = <<>>
    /\ lastSend' = NoSend
    /\ lastOp' = NoOp

(* --------------------------- specifications --------------------------- *)
\* priorities, handlers that succeed
NextPriority ==
    \/ Send
    \/ \E c \in Consumers : Consume(c)
    \/ \E c \in Consumers : Poll(c)
    \/ \E a \in attempts : HandlerResolve(a)

SpecPriority == InitFor("priority") /\ [][NextPriority]_vars

\* the poll timer of an active registration is always re-armed
\* (setTimeout(processMessages, ...) on every path of processMessages), and a
\* handler of this workload settles
FairSpecPriority ==
    /\ SpecPriority
    /\ \A c \in Consumers : WF_vars(Poll(c))
    /\ WF_vars(\E a \in attempts : HandlerResolve(a))

\* delayed messages, handlers that succeed
NextDelay ==
    \/ Tick
    \/ Send
    \/ \E c \in Consumers : Consume(c)
    \/ \E c \in Consumers : Poll(c)
    \/ \E a \in attempts : HandlerResolve(a)

SpecDelay == InitFor("delay") /\ [][NextDelay]_vars

\* deduplication ids, handlers that succeed or fail
NextDedup ==
    \/ Tick
    \/ Send
    \/ \E c \in Consumers : Consume(c)
    \/ \E c \in Consumers : Poll(c)
    \/ \E a \in attempts : HandlerResolve(a)
    \/ \E a \in attempts : HandlerReject(a)
    \/ \E a \in attempts : handleMessageError(a)

SpecDedup == InitFor("dedup") /\ [][NextDedup]_vars

\* expiring messages and the purge
NextExpiry ==
    \/ Tick
    \/ Send
    \/ \E c \in Consumers : Consume(c)
    \/ \E c \in Consumers : Poll(c)
    \/ \E a \in attempts : HandlerResolve(a)
    \/ \E a \in attempts : HandlerReject(a)
    \/ \E a \in attempts : handleMessageError(a)
    \/ \E qn \in Queues \cup {Undefined} : cleanupExpiredMessages(qn)

SpecExpiry == InitFor("expiry") /\ [][NextExpiry]_vars

\* failing handlers, retries, dead letters and requeue
NextRetry ==
    \/ Tick
    \/ Send
    \/ \E c \in Consumers : Consume(c)
    \/ \E c \in Consumers : Poll(c)
    \/ \E a \in attempts : HandlerResolve(a)
    \/ \E a \in attempts : HandlerReject(a)
    \/ \E a \in attempts : handleMessageError(a)
    \/ \E d \in deadLetters : requeueDeadLetterMessage(d.id)

SpecRetry == InitFor("retry") /\ [][NextRetry]_vars

\* dead letters and requeue calls with any id, payloads and metadata
NextRequeue ==
    \/ Send
    \/ \E c \in Consumers : Consume(c)
    \/ \E c \in Consumers : Poll(c)
    \/ \E a \in attempts : HandlerResolve(a)
    \/ \E a \in attempts : HandlerReject(a)
    \/ \E a \in attempts : handleMessageError(a)
    \/ \E dlqId \in DlqIds : requeueDeadLetterMessage(dlqId)

SpecRequeue == InitFor("requeue") /\ [][NextRequeue]_vars

\* every operation that writes messages or dead_letter_messages, with the
\* message_stats table
NextStats ==
    \/ Tick
    \/ Send
    \/ \E c \in Consumers : Consume(c)
    \/ \E c \in Consumers : Poll(c)
    \/ \E a \in attempts : HandlerResolve(a)
    \/ \E a \in attempts : HandlerReject(a)
    \/ \E a \in attempts : handleMessageError(a)
    \/ \E dlqId \in DlqIds : requeueDeadLetterMessage(dlqId)
    \/ cleanupExpiredMessages(Undefined)

SpecStats == InitFor("stats") /\ [][NextStats]_vars

\* payloads that are null or undefined, handlers that succeed
NextPayload ==
    \/ Send
    \/ \E c \in Consumers : Consume(c)
    \/ \E c \in Consumers : Poll(c)
    \/ \E a \in attempts : HandlerResolve(a)

SpecPayload == InitFor("payload") /\ [][NextPayload]_vars

\* batches with items that fail (undefined payload, duplicate)
NextBatch ==
    \/ Tick
    \/ SendBatch
    \/ \E c \in Consumers : Consume(c)
    \/ \E c \in Consumers : Poll(c)
    \/ \E a \in attempts : HandlerResolve(a)

SpecBatch == InitFor("batch") /\ [][NextBatch]_vars

\* registrations that are stopped while handlers are in flight
NextStop ==
    \/ Send
    \/ \E c \in Consumers : Consume(c)
    \/ \E c \in Consumers : Poll(c)
    \/ \E c \in Consumers : Stop(c)
    \/ \E a \in attempts : HandlerResolve(a)
    \/ \E a \in attempts : HandlerReject(a)
    \/ \E a \in attempts : handleMessageError(a)

SpecStop == InitFor("stop") /\ [][NextStop]_vars

\* the handlers of this workload settle, and the continuations of
\* processMessage and consume run whether or not the registration is active
FairSpecStop ==
    /\ SpecStop
    /\ \A i \in Ids :
          /\ WF_vars(\E a \in attempts :
                       a.id = i /\ (HandlerResolve(a) \/ HandlerReject(a)))
          /\ WF_vars(\E a \in attempts : a.id = i /\ handleMessageError(a))

\* handlers that outlive processingTimeout and are abandoned
NextTimeout ==
    \/ Tick
    \/ Send
    \/ \E c \in Consumers : Consume(c)
    \/ \E c \in Consumers : Poll(c)
    \/ \E a \in attempts : HandlerResolve(a)
    \/ \E a \in attempts : ProcessingTimeout(a)
    \/ \E a \in attempts : AbandonedHandlerEnds(a)
    \/ \E a \in attempts : handleMessageError(a)

SpecTimeout == InitFor("timeout") /\ [][NextTimeout]_vars

\* the processingTimeout timer of an attempt fires unless the handler has
\* settled, and the catch blocks of processMessage and consume then run to
\* their end; a handler itself may never return
FairSpecTimeout ==
    /\ SpecTimeout
    /\ \A i \in Ids :
          /\ WF_vars(\E a \in attempts : a.id = i /\ ProcessingTimeout(a))
          /\ WF_vars(\E a \in attempts : a.id = i /\ handleMessageError(a))

\* handlers that throw, reject or time out, next to handlers that resolve
NextHandler ==
    \/ Send
    \/ \E c \in Consumers : Consume(c)
    \/ \E c \in Consumers : Poll(c)
    \/ \E a \in attempts : HandlerResolve(a)
    \/ \E a \in attempts : HandlerReject(a)
    \/ \E a \in attempts : ProcessingTimeout(a)
    \/ \E a \in attempts : AbandonedHandlerEnds(a)
    \/ \E a \in attempts : handleMessageError(a)

SpecHandler == InitFor("handler") /\ [][NextHandler]_vars

\* store operations that fail inside their transaction: duplicate sends,
\* payloads the insert refuses, requeue calls with an unknown id
NextTransaction ==
    \/ Send
    \/ \E c \in Consumers : Consume(c)
    \/ \E c \in Consumers : Poll(c)
    \/ \E a \in attempts : HandlerReject(a)
    \/ \E a \in attempts : handleMessageError(a)
    \/ \E dlqId \in DlqIds : requeueDeadLetterMessage(dlqId)

SpecTransaction == InitFor("transaction") /\ [][NextTransaction]_vars

\* priorities at and above the configured maximum, and none at all
NextRange ==
    \/ Send
    \/ \E c \in Consumers : Consume(c)
    \/ \E c \in Consumers : Poll(c)
    \/ \E a \in attempts : HandlerResolve(a)

SpecRange == InitFor("range") /\ [][NextRange]_vars

\* claims next to rows the select must leave alone: another queue, delayed
\* messages, rows in every status, dead letters
NextClaim ==
    \/ Send
    \/ \E c \in Consumers : Consume(c)
    \/ \E c \in Consumers : Poll(c)
    \/ \E a \in attempts : HandlerResolve(a)
    \/ \E a \in attempts : HandlerReject(a)
    \/ \E a \in attempts : handleMessageError(a)

SpecClaim == InitFor("claim") /\ [][NextClaim]_vars

\* handlers that resolve, with listeners of 'message:processed' that may
\* throw
NextListener ==
    \/ Send
    \/ \E c \in Consumers : Consume(c)
    \/ \E c \in Consumers : Poll(c)
    \/ \E a \in attempts : MessageCompleted(a)
    \/ \E a \in attempts : ListenerReturns(a)
    \/ \E a \in attempts : ListenerThrows(a)
    \/ \E a \in attempts : handleMessageError(a)

SpecListener == InitFor("listener") /\ [][NextListener]_vars

\* a shutdown that is requested while registrations poll, start and stop
NextShutdown ==
    \/ Send
    \/ \E c \in Consumers : Consume(c)
    \/ \E c \in Consumers : Poll(c)
    \/ \E c \in Consumers : ClaimFails(c)
    \/ \E c \in Consumers : Stop(c)
    \/ \E c \in Consumers : StopAgain(c)
    \/ \E a \in attempts : HandlerResolve(a)
    \/ gracefulShutdown
    \/ ShutdownWait

SpecShutdown == InitFor("shutdown") /\ [][NextShutdown]_vars

\* the timer of the loop body of gracefulShutdown fires
FairSpecShutdown == SpecShutdown /\ WF_vars(ShutdownWait)

\* mutant: a poll cycle ends without setTimeout(processMessages, ...)
FairSpecPoll_noTimer == SpecShutdown

\* every path of a poll cycle of an active registration re-arms its timer
\* (empty fetch, end of the try block, catch block), the timer fires, and the
\* claim transaction of a cycle does not fail for ever
FairSpecPoll == SpecShutdown /\ \A c \in Consumers : WF_vars(Poll(c))

(* ------------------------------- claims ------------------------------- *)
Issued == {i \in Ids : i < nextId}
DlqOriginals == {d.originalId : d \in deadLetters}
\* message i is returned by a fetchMessages call (and handed to the handler)
\* in this step
ClaimedInStep(i) == calls'[i] > calls[i]

\* C1: a message is returned by at most one fetchMessages call between two
\* writes of status 'pending': no id ever has two owners.
C1_AtMostOneOwner == \A i \in Ids : owners[i] <= 1

\* a message that was retried and claimed again, with both registrations
\* polling, still has one owner
C1_Witness ==
    /\ \A c \in Consumers : cstate[c] = "active"
    /\ \E i \in Ids : calls[i] >= 2 /\ owners[i] = 1
                      /\ messages[i].status = "processing"

\* C2 (as claimed): at most one handler invocation is executing for any
\* message id, abandoned handlers included.
C2_OneHandlerPerMessage ==
    \A i \in Ids : Cardinality({a \in attempts : a.id = i /\ a.running}) <= 1

\* C3: with handlers that always succeed and two consumers, every message is
\* handed to exactly one handler invocation: none twice, and, once a
\* registration polls, none never.
C3_CallsMatchStatus ==
    \A i \in Ids : Exists(messages, i) =>
        calls[i] = IF messages[i].status = "pending" THEN 0 ELSE 1

C3_AllDelivered ==
    \A i \in Issued : messages[i].status = "completed" /\ calls[i] = 1

C3_ExactlyOnce ==
    /\ []C3_CallsMatchStatus
    /\ (\E c \in Consumers : cstate[c] = "active") ~> C3_AllDelivered

C3_Witness ==
    /\ \A c \in Consumers : cstate[c] = "active"
    /\ nextId > 2
    /\ C3_AllDelivered

\* C4 (as claimed): a send whose (queueName, deduplicationId) already has a
\* non-failed message returns the id of that message and inserts no row.
C4_SecondSendReturnsFirst ==
    lastSend.prior # {} =>
        /\ lastSend.result \in lastSend.prior
        /\ ~lastSend.inserted

\* C5 (as claimed): each queue holds at most one non-failed message per
\* deduplicationId.
C5_DedupInvariant ==
    \A q \in Queues : Cardinality(NonFailedFor(messages, q, "d1")) <= 1

\* C6 (as claimed): with dead-lettering enabled and only the registration
\* whose dead-letter maxRetries is 3 polling, a message that is moved to the
\* dead-letter set has been handed to the handler exactly maxRetries times,
\* and leaves messages in that step.
C6_ExactlyNInvocations ==
    [][\A i \in Ids :
          (i \in DlqOriginals' /\ i \notin DlqOriginals /\ cstate[2] = "new")
          => /\ calls[i] = messages[i].maxRetries
             /\ ~Exists(messages', i)]_vars

\* C7: no message id is both a row of messages and the originalId of a
\* dead-letter row, there is at most one dead-letter row per originalId, and
\* the dead-letter insert and the delete from messages happen in one step.
C7_NotBoth == \A d \in deadLetters : ~Exists(messages, d.originalId)

C7_OneRow ==
    \A d1, d2 \in deadLetters : d1.originalId = d2.originalId => d1 = d2

C7_MoveAtomic ==
    \A i \in Ids :
        (i \in DlqOriginals' /\ i \notin DlqOriginals)
        <=> (Exists(messages, i) /\ ~Exists(messages', i))

C7_DeadLetterExclusive ==
    /\ [](C7_NotBoth /\ C7_OneRow)
    /\ [][C7_MoveAtomic]_vars

C7_Witness ==
    \E d \in deadLetters :
        ~Exists(messages, d.originalId) /\ calls[d.originalId] > 0

\* C8 (as claimed): a claim returns a message only if it is pending, its
\* availableAt has come and its expiresAt is absent or in the future.
Claimable(m, t) ==
    /\ m.status = "pending"
    /\ m.availableAt <= Sec(t)
    /\ (m.expiresAt = NoExpiry \/ m.expiresAt > Sec(t))

C8_ClaimableOnly ==
    [][\A i \in Ids : ClaimedInStep(i) => Claimable(messages[i], now)]_vars

\* C9 (as claimed): a message sent at t with delay d is never handed to a
\* handler before t + d.
C9_DelayGating ==
    [][\A i \in Ids : ClaimedInStep(i) => now >= messages[i].dueMs]_vars

\* C10: the messages of one claim are in descending priority order, and a
\* claim never leaves behind a pending, available message of the queue with a
\* higher priority than one it returns, so a single consumer invokes the
\* handlers in descending priority order whatever the send order.
C10_Sorted ==
    \A k, l \in 1..Len(lastBatch) : k < l =>
        messages[lastBatch[k]].priority >= messages[lastBatch[l]].priority

C10_TopFirst ==
    \A i, j \in Ids :
        (/\ ClaimedInStep(i)
         /\ ~ClaimedInStep(j)
         /\ Exists(messages, j)
         /\ messages[j].queue = messages[i].queue
         /\ messages[j].status = "pending"
         /\ messages[j].availableAt <= Sec(now))
        => messages[j].priority <= messages[i].priority

C10_PriorityOrder ==
    /\ []C10_Sorted
    /\ [][C10_TopFirst]_vars

\* sent with priorities 1, 9, 5: one claim returns high then medium, low waits
C10_Witness ==
    /\ nextId > 3
    /\ messages[1].priority = 1
    /\ messages[2].priority = 9
    /\ messages[3].priority = 5
    /\ lastBatch = <<2, 3>>
    /\ messages[1].status = "pending"

\* C11 (as claimed): of two claimable messages of one queue with the same
\* priority, a claim never takes the later-sent one and leaves the earlier
\* one, and inside a batch the earlier-sent one comes first (ids are issued in
\* send order), also for messages sent within the same second.
C11_FifoWithinBand ==
    [][/\ \A i, j \in Ids :
             (/\ i < j
              /\ Exists(messages, i) /\ Exists(messages, j)
              /\ messages[i].queue = messages[j].queue
              /\ messages[i].priority = messages[j].priority
              /\ messages[i].status = "pending"
              /\ messages[i].availableAt <= Sec(now)
              /\ ClaimedInStep(j))
             => ClaimedInStep(i)
       /\ \A k, l \in 1..Len(lastBatch') :
             (k < l /\ messages[lastBatch'[k]].priority
                       = messages[lastBatch'[l]].priority)
             => lastBatch'[k] < lastBatch'[l]]_vars

\* C12 (as claimed): for every failed attempt exactly one store operation is
\* invoked: retryMessage while retries < effectiveMaxRetries, otherwise
\* moveToDeadLetter if dead-lettering is enabled, otherwise markMessageFailed.
C12_ExactlyOneRouting ==
    lastOp.op = "handleMessageError" => Len(lastOp.ops) = 1

\* C13: the retries counter of a row never decreases and grows by at most 1
\* per step; it never exceeds message.maxRetries, and the failure handling of
\* a registration never raises it above min(message.maxRetries, dead-letter
\* maxRetries of that registration): a failure at that bound leaves the
\* counter alone and, with dead-lettering enabled, moves the message to the
\* dead-letter set.
RetryBound(i, c) == Min(messages[i].maxRetries, deadLetterQueue(c).maxRetries)

C13_Bounded ==
    /\ \A i \in Ids :
          Exists(messages, i) => messages[i].retries <= messages[i].maxRetries
    /\ (/\ lastOp.op = "handleMessageError"
        /\ lastOp.ops[Len(lastOp.ops)] = "retryMessage")
       => /\ Exists(messages, lastOp.id)
          /\ messages[lastOp.id].retries <= RetryBound(lastOp.id, lastOp.c)

C13_Monotone ==
    \A i \in Ids : (Exists(messages, i) /\ Exists(messages', i)) =>
        /\ messages'[i].retries >= messages[i].retries
        /\ messages'[i].retries <= messages[i].retries + 1

C13_AtBound ==
    (/\ lastOp'.op = "handleMessageError"
     /\ messages[lastOp'.id].retries >= RetryBound(lastOp'.id, lastOp'.c))
    => IF deadLetterQueue(lastOp'.c).enabled
       THEN /\ ~Exists(messages', lastOp'.id)
            /\ \E d \in deadLetters' \ deadLetters :
                  /\ d.originalId = lastOp'.id
                  /\ d.retries = messages[lastOp'.id].retries
       ELSE /\ messages'[lastOp'.id].retries = messages[lastOp'.id].retries
            /\ messages'[lastOp'.id].status = "failed"

DlqRow(dlqId) == CHOOSE d \in deadLetters : d.id = dlqId

\* in the requeue workload every send has maxRetries 1, so the rows with
\* max_retries 3 are the ones requeueDeadLetterMessage inserted
Requeued(i) ==
    Exists(messages, i) /\ messages[i].maxRetries = RequeueMaxRetries

C14_RequeueStep ==
    (/\ lastOp'.op = "requeueDeadLetterMessage"
     /\ \E d \in deadLetters : d.id = lastOp'.id)
    => /\ deadLetters' = deadLetters \ {DlqRow(lastOp'.id)}
       /\ \E i \in Ids :
             /\ i \notin Issued
             /\ \A j \in Ids \ {i} : messages'[j] = messages[j]
             /\ messages'[i].status = "pending"
             /\ messages'[i].retries = 0
             /\ messages'[i].queue = DlqRow(lastOp'.id).queue
             /\ messages'[i].payload = DlqRow(lastOp'.id).payload
             /\ messages'[i].metadata = DlqRow(lastOp'.id).metadata
             /\ Claimable(messages'[i], now')

C14_HandlerCompletes ==
    \A a \in attempts :
        (Requeued(a.id) /\ a.phase = "handler" /\ attempts' = attempts \ {a})
        => messages'[a.id].status = "completed"

C14_RequeueResets == [][C14_RequeueStep /\ C14_HandlerCompletes]_vars

\* a message with metadata failed twice, was dead-lettered with retries 1,
\* requeued, claimed again and completed
C14_Witness ==
    \E i \in Ids :
        /\ Requeued(i)
        /\ messages[i].status = "completed"
        /\ messages[i].metadata = "m1"
        /\ messages[i].retries = 0
        /\ deadLetters = {}
        /\ nextDlq = 2

\* C15: a requeueDeadLetterMessage call with an id that has no dead-letter row
\* (never issued, or already requeued) ends with the not-found error and
\* changes neither messages nor the dead-letter set; a successful call
\* removes the row and its id never comes back, so one dead-letter row is
\* requeued at most once.
DlqRowIds(rows) == {d.id : d \in rows}

C15_NotFoundStep ==
    (/\ lastOp'.op = "requeueDeadLetterMessage"
     /\ lastOp'.id \notin DlqRowIds(deadLetters))
    => /\ lastOp'.result = "not found"
       /\ messages' = messages
       /\ deadLetters' = deadLetters

C15_OnlyOnce ==
    /\ (lastOp'.op = "requeueDeadLetterMessage" /\ lastOp'.result = "ok")
       => /\ lastOp'.id \in DlqRowIds(deadLetters)
          /\ lastOp'.id \notin DlqRowIds(deadLetters')
    /\ \A x \in 1..(nextDlq - 1) :
          x \notin DlqRowIds(deadLetters) => x \notin DlqRowIds(deadLetters')

C15_RequeueNotFound == [][C15_NotFoundStep /\ C15_OnlyOnce]_vars

\* the second requeue of a dead-letter row that was already requeued
C15_Witness ==
    /\ lastOp.op = "requeueDeadLetterMessage"
    /\ lastOp.result = "not found"
    /\ lastOp.id < nextDlq
    /\ \E i \in Ids : Requeued(i)

\* C16 (as claimed): a send whose payload is null or undefined is rejected
\* before any write: it returns no id and inserts no row (message:send is
\* emitted exactly when an id is returned).
C16_PayloadValidated ==
    lastSend.payload \in {"null", Undefined} =>
        /\ lastSend.result = SendError
        /\ ~lastSend.inserted

\* C17: a sendBatch call never throws; every item of the list is reported
\* exactly once, in successful (by its new id) or in failed, so the two
\* lengths add up to the length of the list; successful holds exactly the ids
\* of the rows the call inserted, and no other row changes: an item that
\* fails neither stops the items after it nor undoes the items before it.
InsertedInStep == {i \in Ids : ~Exists(messages, i) /\ Exists(messages', i)}

NoRepeats(seq) == \A k, l \in 1..Len(seq) : seq[k] = seq[l] => k = l

C17_BatchStep ==
    lastOp'.op = "sendBatch" =>
        /\ ~lastOp'.threw
        /\ Len(lastOp'.successful) + Len(lastOp'.failed) = lastOp'.n
        /\ NoRepeats(lastOp'.successful) /\ NoRepeats(lastOp'.failed)
        /\ Range(lastOp'.failed) \subseteq 1..lastOp'.n
        /\ Range(lastOp'.successful) = InsertedInStep
        /\ \A i \in Ids \ InsertedInStep : messages'[i] = messages[i]

InProgress(c) == {a \in attempts : a.c = c /\ a.phase = "handler"}

C18_BoundedConcurrency ==
    \A c \in Consumers : Cardinality(InProgress(c)) <= concurrency(c)

\* C19: when the timer of an attempt fires before its handler settles, the
\* message is marked failed without another handler invocation and the
\* attempt goes through handleMessageError; so no message stays in status
\* processing forever, even if its handler never returns, and the handler
\* invocations of a message number one per attempt (retries + 1 once claimed).
TimedOutInStep(a) ==
    /\ a \in attempts /\ a.phase = "handler"
    /\ [a EXCEPT !.phase = "failed",
                 !.ops = Append(@, "markMessageFailed")] \in attempts'

C19_TimeoutFails ==
    \A a \in attempts : TimedOutInStep(a) =>
        /\ messages'[a.id].status = "failed"
        /\ calls' = calls

C19_OneInvocationPerAttempt ==
    \A i \in Ids : Exists(messages, i) =>
        calls[i] = messages[i].retries
                   + (IF messages[i].status = "pending" THEN 0 ELSE 1)

C19_TimeoutRouted ==
    /\ [][C19_TimeoutFails]_vars
    /\ []C19_OneInvocationPerAttempt
    /\ \A i \in Ids :
          /\ (\E a \in attempts : a.id = i /\ a.phase = "failed")
                ~> (lastOp.op = "handleMessageError" /\ lastOp.id = i)
          /\ (messages[i].status = "processing")
                ~> (messages[i].status # "processing")

\* a handler that is still running after its attempt timed out and the
\* message was retried
C19_Witness ==
    /\ lastOp.op = "handleMessageError"
    /\ "retryMessage" \in Range(lastOp.ops)
    /\ \E a \in attempts :
          /\ a.running /\ a.phase = "done"
          /\ lastOp.id = a.id
          /\ messages[a.id].status = "pending"

\* C20: once the stop function of a registration has run, the registration
\* is out of the consumer set and stays stopped, no message goes from pending
\* to processing on its behalf, and each of its attempts in flight still
\* ends, with its outcome written: completed when the handler resolves,
\* otherwise pending (retry), failed, or gone to the dead-letter set.
AttemptsOf(c, set) == {a \in set : a.c = c}

C20_Deregistered ==
    \A c \in Consumers : c \in consumers <=> cstate[c] = "active"

C20_NoClaimAfterStop ==
    \A c \in Consumers : cstate[c] = "stopped" =>
        /\ cstate'[c] = "stopped"
        /\ \A i \in Ids :
              (/\ Exists(messages, i)
               /\ messages[i].status = "pending"
               /\ messages'[i].status = "processing")
              => ~\E a \in AttemptsOf(c, attempts' \ attempts) : a.id = i

C20_OutcomeWritten ==
    \A a \in attempts :
        (/\ cstate[a.c] = "stopped"
         /\ ~\E b \in AttemptsOf(a.c, attempts') : b.id = a.id)
        => \/ a.phase = "handler" /\ messages'[a.id].status = "completed"
           \/ /\ a.phase = "failed"
              /\ lastOp'.op = "handleMessageError" /\ lastOp'.id = a.id
              /\ \/ messages'[a.id].status \in {"pending", "failed"}
                 \/ ~Exists(messages', a.id) /\ a.id \in DlqOriginals'

C20_StopIsFinal ==
    /\ []C20_Deregistered
    /\ [][C20_NoClaimAfterStop /\ C20_OutcomeWritten]_vars
    /\ \A c \in Consumers :
          (cstate[c] = "stopped") ~> (AttemptsOf(c, attempts) = {})

\* a stopped registration has just had the failure of its attempt handled
\* while a claimable message waits unclaimed
C20_Witness ==
    /\ lastOp.op = "handleMessageError"
    /\ cstate[lastOp.c] = "stopped"
    /\ \A c \in Consumers : cstate[c] # "active"
    /\ \E i \in Ids : Exists(messages, i) /\ Claimable(messages[i], now)

\* C21: from the step in which gracefulShutdown sets isShuttingDown on, no
\* step claims a message (no row goes from pending to processing and no
\* handler is called), whether the registration existed before or is created
\* afterwards, and the flag stays set.
C21_Step ==
    /\ isShuttingDown => isShuttingDown'
    /\ isShuttingDown' =>
          \A i \in Ids :
             /\ ~ClaimedInStep(i)
             /\ ~(messages[i].status = "pending"
                  /\ messages'[i].status = "processing")

C21_ShutdownStopsClaims == [][C21_Step]_vars

\* a registration is created during the shutdown, next to one whose handler
\* is still running, while a claimable message waits
C21_Witness ==
    /\ isShuttingDown
    /\ lastOp = ReturnedAtOnce(2)
    /\ cstate = [c \in Consumers |-> "active"]
    /\ \E a \in attempts : a.c = 1 /\ a.phase = "handler"
    /\ \E i \in Ids : /\ messages[i].status = "pending"
                      /\ Claimable(messages[i], now)

\* C22: gracefulShutdown terminates: it reads the number of registered
\* consumers at most ShutdownAttempts (30) times, waits at most as often, and
\* then resolves, also with consumers still registered; it resolves at the
\* first read that returns 0.
C22_Bounded ==
    /\ shutdownCall.attempts <= ShutdownAttempts
    /\ shutdownCall.polls <= ShutdownAttempts

C22_ResolveStep ==
    (shutdownCall'.pc = "done" /\ shutdownCall.pc # "done") =>
        \/ shutdownCall'.attempts = ShutdownAttempts
        \/ getActiveConsumerCount(consumers) = 0

C22_ZeroEndsLoop ==
    (shutdownCall' # shutdownCall /\ getActiveConsumerCount(consumers) = 0)
        => shutdownCall'.pc = "done"

C22_ShutdownTerminates ==
    /\ []C22_Bounded
    /\ [][C22_ResolveStep /\ C22_ZeroEndsLoop]_vars
    /\ (shutdownCall.pc = "waiting") ~> (shutdownCall.pc = "done")

\* the loop ran out of attempts with a consumer still registered
C22_Witness ==
    /\ shutdownCall.pc = "done"
    /\ shutdownCall.attempts = ShutdownAttempts
    /\ getActiveConsumerCount(consumers) > 0

\* C23 (as claimed): every run of processMessages of an active registration
\* before shutdown ends by re-arming the timer, after pollInterval * 2 when
\* the cycle failed (the claim threw) and after pollInterval when it went
\* through, with or without messages.
C23_Step ==
    (lastOp'.op = "processMessages" /\ ~isShuttingDown) =>
        lastOp'.delay = IF lastOp'.threw /\ lastOp'.claimed = 0
                        THEN lastOp'.pollInterval * BackoffFactor
                        ELSE lastOp'.pollInterval

C23_PollRescheduled == [][C23_Step]_vars

\* C24: a handler that throws, rejects or times out fails only its own
\* attempt: the registration stays as it was (it can still poll and be
\* stopped), the attempt ends with exactly one of retry, dead-letter or
\* failed written for its message and nothing else touched, and every
\* message of a claimed batch is handed to the handler whatever happens to
\* the others.
FailedInStep(a) ==
    /\ a \in attempts /\ a.phase = "handler"
    /\ \E r \in BOOLEAN :
          [a EXCEPT !.phase = "failed", !.running = r,
                    !.ops = Append(@, "markMessageFailed")] \in attempts'

OthersUntouched(a) ==
    /\ cstate' = cstate /\ consumers' = consumers
    /\ \A b \in attempts \ {a} : b \in attempts'
    /\ \A i \in Ids \ {a.id} : messages'[i] = messages[i]

C24_FailureContained ==
    \A a \in attempts : FailedInStep(a) =>
        /\ OthersUntouched(a)
        /\ deadLetters' = deadLetters
        /\ messages'[a.id].status = "failed"

Outcome(o, a) ==
    CASE o = "retryMessage" -> /\ messages'[a.id].status = "pending"
                               /\ deadLetters' = deadLetters
      [] o = "moveToDeadLetter" ->
            /\ ~Exists(messages', a.id)
            /\ \E d \in deadLetters' \ deadLetters : d.originalId = a.id
      [] o = "markMessageFailed" -> /\ messages'[a.id].status = "failed"
                                    /\ deadLetters' = deadLetters
      [] OTHER -> FALSE

C24_Converted ==
    \A a \in attempts :
      (/\ a.phase = "failed"
       /\ ~\E b \in attempts' :
             b.id = a.id /\ b.retries = a.retries /\ b.phase = "failed") =>
        /\ lastOp'.op = "handleMessageError" /\ lastOp'.id = a.id
        /\ Outcome(lastOp'.ops[Len(lastOp'.ops)], a)
        /\ OthersUntouched(a)
        /\ a.running => [a EXCEPT !.phase = "done"] \in attempts'

C24_BatchProcessed ==
    \A k \in 1..Len(lastBatch') :
        /\ calls'[lastBatch'[k]] = calls[lastBatch'[k]] + 1
        /\ \E a \in attempts' \ attempts :
              a.id = lastBatch'[k] /\ a.phase = "handler"

C24_LoopGoesOn ==
    \A c \in Consumers : cstate[c] = "active" =>
        ENABLED Poll(c) /\ ENABLED Stop(c)

C25_Step ==
    (/\ lastOp'.op = "handleMessageError"
     /\ lastOp'.ops[Len(lastOp'.ops)] = "retryMessage") =>
        LET i == lastOp'.id
        IN /\ messages'[i].status = "pending"
           /\ messages'[i].retries = messages[i].retries + 1
           /\ messages'[i].availableAt =
                 Sec(now) + messages'[i].retries * BackoffSec
           /\ messages'[i].availableAt >= Sec(now) + BackoffSec

C25_RetryBackoff == [][C25_Step]_vars

\* C26 (as claimed): cleanupExpiredMessages succeeds with and without a
\* queue name, deletes exactly the messages (of that queue, or of all queues)
\* whose expiresAt is set and earlier than now, returns their number and
\* leaves every other message and the dead letters as they were.
C26_Step ==
    lastOp'.op = "cleanupExpiredMessages" =>
        LET gone == {i \in Expired(messages, now) :
                        \/ lastOp'.queueName = Undefined
                        \/ messages[i].queue = lastOp'.queueName}
        IN /\ ~lastOp'.threw
           /\ lastOp'.changes = Cardinality(gone)
           /\ \A i \in Ids : messages'[i] = IF i \in gone THEN NoRow
                                            ELSE messages[i]
           /\ deadLetters' = deadLetters

C26_CleanupExact == [][C26_Step]_vars

\* C27: a store operation that fails inside its transaction (a send that is
\* refused as a duplicate or by the insert, a requeue of an unknown id)
\* reports the error to its caller and leaves the messages and dead-letter
\* tables exactly as they were before the call.
C27_SendFails ==
    (lastSend' # NoSend /\ lastSend'.result = SendError) =>
        /\ ~lastSend'.inserted
        /\ messages' = messages
        /\ deadLetters' = deadLetters

C27_RequeueFails ==
    (/\ lastOp'.op = "requeueDeadLetterMessage"
     /\ lastOp'.result = "not found") =>
        /\ messages' = messages
        /\ deadLetters' = deadLetters

C27_FailedWritesRolledBack == [][C27_SendFails /\ C27_RequeueFails]_vars

\* a send was refused as a duplicate, after its insert, of a message that is
\* with its handler
C27_Witness ==
    /\ lastSend.result = SendError
    /\ lastSend.payload = "p1"
    /\ lastSend.dedup = "d1"
    /\ \E i \in lastSend.prior : messages[i].status = "processing"
    /\ ~Exists(messages, nextId)

\* C28 (as claimed): no stored message has a priority above the configured
\* maximum, whatever priority the producer passes.
C28_PriorityClamped ==
    \A i \in Ids : Exists(messages, i) => messages[i].priority <= maxPriority

\* C29: when a failed attempt of a registration without dead-lettering finds
\* retries >= effectiveMaxRetries, the message ends in status failed, stays
\* in messages and gets no dead-letter row; from then on the row never
\* changes and is never claimed again; and a message is left in status
\* failed (with its failure handling over) in that case only.
FinallyFailed(msgs, atts, i) ==
    /\ msgs[i].status = "failed"
    /\ ~\E a \in atts : a.id = i /\ a.phase = "failed"

C29_FailsWithoutDeadLetter ==
    (/\ lastOp'.op = "handleMessageError"
     /\ ~deadLetterQueue(lastOp'.c).enabled
     /\ messages[lastOp'.id].retries >= RetryBound(lastOp'.id, lastOp'.c))
    => /\ FinallyFailed(messages', attempts', lastOp'.id)
       /\ messages'[lastOp'.id].retries = messages[lastOp'.id].retries
       /\ deadLetters' = deadLetters

C29_Terminal ==
    \A i \in Ids : FinallyFailed(messages, attempts, i) =>
        /\ messages'[i] = messages[i]
        /\ calls'[i] = calls[i]
        /\ ~\E a \in attempts' \ attempts : a.id = i

C29_OnlyThen ==
    \A i \in Ids :
       (/\ FinallyFailed(messages', attempts', i)
        /\ ~FinallyFailed(messages, attempts, i))
       => /\ lastOp'.op = "handleMessageError" /\ lastOp'.id = i
          /\ lastOp'.ops[Len(lastOp'.ops)] = "markMessageFailed"
          /\ ~deadLetterQueue(lastOp'.c).enabled
          /\ messages[i].retries >= RetryBound(i, lastOp'.c)

C29_FailedIsTerminal ==
    [][C29_FailsWithoutDeadLetter /\ C29_Terminal /\ C29_OnlyThen]_vars

\* a message failed for good after one retry, polled again and left alone,
\* while another message went to the dead letters
C29_Witness ==
    /\ \E i \in Ids : /\ FinallyFailed(messages, attempts, i)
                      /\ messages[i].retries = 1
                      /\ calls[i] = 2
    /\ lastOp.op = "processMessages" /\ lastOp.claimed = 0
    /\ deadLetters # {}

\* C30 (as claimed): a message row changes status only by pending ->
\* processing, processing -> completed, processing -> pending or
\* processing -> failed, and a row is moved to the dead letters only while it
\* is in status processing; so every outcome is written to a row that is in
\* status processing.
LifecycleSteps ==
    {<<"pending", "processing">>, <<"processing", "completed">>,
     <<"processing", "pending">>, <<"processing", "failed">>}

C30_StatusStep ==
    \A i \in Ids :
       (/\ Exists(messages, i) /\ Exists(messages', i)
        /\ messages'[i].status # messages[i].status)
       => <<messages[i].status, messages'[i].status>> \in LifecycleSteps

C30_OutcomeOnProcessing ==
    lastOp'.op = "handleMessageError" =>
        messages[lastOp'.id].status = "processing"

C30_LifecycleTransitions ==
    [][C30_StatusStep /\ C30_OutcomeOnProcessing]_vars

\* C31: a run of the claim of a registration returns at most batchSize
\* messages, all of its queue, pending and available; it sets the returned
\* rows, and no other, to processing in the same step, and leaves the rest
\* of every row, every other row and the dead letters as they were.
C31_Step ==
    lastOp'.op = "processMessages" =>
        LET new == attempts' \ attempts
        IN /\ {a.id : a \in new} = Range(lastBatch')
           /\ Cardinality(new) = Len(lastBatch')
           /\ \A a \in new :
                 /\ Len(lastBatch') <= batchSize(a.c)
                 /\ messages[a.id].queue = queueOf(a.c)
                 /\ messages[a.id].status = "pending"
                 /\ messages[a.id].availableAt <= Sec(now)
           /\ \A i \in Ids :
                 messages'[i] = IF i \in Range(lastBatch')
                                THEN [messages[i] EXCEPT
                                         !.status = "processing"]
                                ELSE messages[i]
           /\ deadLetters' = deadLetters

C31_ClaimFrame == [][C31_Step]_vars

\* registration 1 claimed one of two available messages of its queue while
\* a message of the other queue waits
C31_Witness ==
    /\ lastOp.op = "processMessages"
    /\ Len(lastBatch) = 1
    /\ \E a \in attempts : a.c = 1 /\ a.id = lastBatch[1]
    /\ \E i \in Ids : /\ messages[i].status = "pending"
                      /\ messages[i].queue = "q1"
                      /\ messages[i].availableAt <= Sec(now)
    /\ \E i \in Ids : messages[i].status = "pending"
                      /\ messages[i].queue = "q2"

\* C32 (as claimed): once a message has status completed its row never
\* changes again (status, retries, availableAt) and it is never handed to a
\* handler again.
C32_Step ==
    \A i \in Ids : messages[i].status = "completed" =>
        /\ messages'[i] = messages[i]
        /\ calls'[i] = calls[i]

C32_CompletedIsTerminal == [][C32_Step]_vars

\* C33: while some registration of the queue is active and shutdown has not
\* started, a message that is pending and available is eventually claimed,
\* whatever the earlier poll cycles did (claimed other messages, found
\* nothing, failed).
NoActiveConsumer(q) ==
    \/ isShuttingDown
    \/ \A c \in Consumers : queueOf(c) = q => cstate[c] # "active"

Purged(i) ==
    /\ i < nextId
    /\ ~Exists(messages, i)
    /\ \A d \in deadLetters : d.originalId # i

C34_Step ==
    \A i \in Ids : Purged(i) =>
        /\ ~Exists(messages', i)
        /\ \A d \in deadLetters' : d.originalId # i

C34_PurgedStaysGone == [][C34_Step]_vars

\* C35: getQueueStats(queue) reports the number of rows of messages of the
\* queue in each status, and the number of dead-letter rows of the queue.
C35_StatusCounts ==
    \A q \in StatQueues :
        /\ getQueueStats(q).pending = CountStatus(messages, q, "pending")
        /\ getQueueStats(q).processing = CountStatus(messages, q, "processing")
        /\ getQueueStats(q).completed = CountStatus(messages, q, "completed")
        /\ getQueueStats(q).failed = CountStatus(messages, q, "failed")

C35_DeadLetterCount ==
    \A q \in StatQueues :
        getQueueStats(q).deadLetter =
            Cardinality({d \in deadLetters : d.queue = q})

C35_StatsConsistent == C35_StatusCounts /\ C35_DeadLetterCount

\* C36: the active-consumer count is the number of consume calls whose
\* stop function has not been called; consume adds exactly one registration,
\* its stop function removes exactly that one, and a second call of the stop
\* function changes nothing.
C36_Count ==
    getActiveConsumerCount(consumers) =
        Cardinality({c \in Consumers : cstate[c] = "active"})

C36_Step ==
    \A c \in Consumers :
        /\ (cstate[c] = "new" /\ cstate'[c] = "active") =>
              /\ c \notin consumers
              /\ consumers' = consumers \cup {c}
        /\ (cstate[c] = "active" /\ cstate'[c] = "stopped") =>
              /\ c \in consumers
              /\ consumers' = consumers \ {c}
        /\ (cstate[c] = "stopped" /\ lastOp'.op = "stop" /\ lastOp'.c = c) =>
              /\ consumers' = consumers
              /\ cstate' = cstate
        /\ cstate'[c] = cstate[c] =>
              (c \in consumers' <=> c \in consumers)

C36_RegistrationBookkeeping == []C36_Count /\ [][C36_Step]_vars

\* a stop function was called a second time while the other registration is
\* still counted
C36_Witness ==
    /\ lastOp.op = "stop"
    /\ \E c \in Consumers : /\ lastOp.c = c /\ cstate[c] = "stopped"
                            /\ \E a \in attempts : a.c = c
    /\ \E c \in Consumers : cstate[c] = "active" /\ lastOp.c # c
    /\ getActiveConsumerCount(consumers) = 1
    /\ isShuttingDown

\* C37: whenever gracefulShutdown evaluates its loop condition with polls
\* left, it resolves if and only if no registration is left that was not
\* deregistered by its stop function; only a stop function removes a
\* registration, so the shutdown flag alone never lowers the count.
C37_Step ==
    /\ (shutdownCall' # shutdownCall
          /\ shutdownCall'.attempts < ShutdownAttempts) =>
           (shutdownCall'.pc = "done" <=>
               \A c \in Consumers : cstate'[c] # "active")
    /\ \A c \in consumers \ consumers' :
           /\ lastOp'.op = "stop"
           /\ lastOp'.c = c
           /\ cstate[c] = "active"

C37_EarlyResolveIffDeregistered == [][C37_Step]_vars

\* the shutdown resolved early, after some waits, once both registrations
\* had been stopped
C37_Witness ==
    /\ isShuttingDown
    /\ shutdownCall.pc = "done"
    /\ shutdownCall.attempts > 0
    /\ shutdownCall.attempts < ShutdownAttempts
    /\ \A c \in Consumers : cstate[c] = "stopped"
    /\ lastOp # [op |-> "gracefulShutdown"]

(* ------------------------ application lifecycle ----------------------- *)
\* the engine is not touched by the application-level steps
EngineUnchanged ==
    /\ UNCHANGED <<workload, messageStats, now, messages, deadLetters,
                   nextId, nextDlq, cstate, attempts, calls, owners,
                   consumers, isShuttingDown, shutdownCall>>
    /\ lastBatch' = <<>>
    /\ lastSend' = NoSend

\* LocusMQ.start() up to its first await
start ==
    /\ IF state # "initialized" /\ state # "stopped"
       THEN \* throw new Error(`Cannot start from state: ...`)
            /\ UNCHANGED <<state, startCalls>>
            /\ lastOp' = [op |-> "LocusMQ.start", from |-> state,
                          threw |-> TRUE]
       ELSE /\ state' = "starting"
            /\ startCalls' = [startCalls EXCEPT !["initialize"] = @ + 1]
            /\ lastOp' = [op |-> "LocusMQ.start", from |-> state,
                          threw |-> FALSE]
    /\ UNCHANGED <<shutdownPromise, shutdownStep>>
    /\ EngineUnchanged

\* databaseManager.initialize() resolved: await this.messageQueue.start()
databaseInitialized ==
    /\ startCalls["initialize"] > 0
    /\ startCalls' = [startCalls EXCEPT !["initialize"] = @ - 1,
                                        !["messageQueue"] = @ + 1]
    /\ lastOp' = NoOp
    /\ UNCHANGED <<state, shutdownPromise, shutdownStep>>
    /\ EngineUnchanged

\* messageQueue.start() resolved: startSampling(), healthChecker.start(),
\* this.state = AppState.RUNNING
started ==
    /\ startCalls["messageQueue"] > 0
    /\ startCalls' = [startCalls EXCEPT !["messageQueue"] = @ - 1]
    /\ state' = "running"
    /\ lastOp' = [op |-> "start settled", threw |-> FALSE]
    /\ UNCHANGED <<shutdownPromise, shutdownStep>>
    /\ EngineUnchanged

\* a start step throws: the catch block sets AppState.ERROR and rethrows
startFails(s) ==
    /\ startCalls[s] > 0
    /\ startCalls' = [startCalls EXCEPT ![s] = @ - 1]
    /\ state' = "error"
    /\ lastOp' = [op |-> "start settled", threw |-> TRUE]
    /\ UNCHANGED <<shutdownPromise, shutdownStep>>
    /\ EngineUnchanged

\* LocusMQ.stop(), with performShutdown up to its first await
stop ==
    /\ IF state = "stopped" \/ state = "stopping"
       THEN /\ UNCHANGED <<state, shutdownPromise, shutdownStep>>
            /\ lastOp' = [op |-> "LocusMQ.stop", from |-> state,
                          performed |-> FALSE, returned |-> "resolved"]
       ELSE IF shutdownPromise # "null"
       THEN \* return this.shutdownPromise
            /\ UNCHANGED <<state, shutdownPromise, shutdownStep>>
            /\ lastOp' = [op |-> "LocusMQ.stop", from |-> state,
                          performed |-> FALSE, returned |-> shutdownPromise]
       ELSE /\ state' = "stopping"
            /\ shutdownPromise' = "pending"
            /\ shutdownStep' = "messageQueue"
            /\ lastOp' = [op |-> "LocusMQ.stop", from |-> state,
                          performed |-> TRUE, returned |-> "pending"]
    /\ UNCHANGED startCalls
    /\ EngineUnchanged

\* messageQueue.stop() resolved: await this.databaseManager.close()
queueStopped ==
    /\ shutdownStep = "messageQueue"
    /\ shutdownStep' = "close"
    /\ lastOp' = NoOp
    /\ UNCHANGED <<state, shutdownPromise, startCalls>>
    /\ EngineUnchanged

\* databaseManager.close() resolved: this.state = AppState.STOPPED
closed ==
    /\ shutdownStep = "close"
    /\ shutdownStep' = "idle"
    /\ state' = "stopped"
    /\ shutdownPromise' = "resolved"
    /\ lastOp' = [op |-> "stop settled", threw |-> FALSE]
    /\ UNCHANGED startCalls
    /\ EngineUnchanged

\* a shutdown step throws: the catch block sets AppState.ERROR and rethrows
shutdownFails ==
    /\ shutdownStep # "idle"
    /\ shutdownStep' = "idle"
    /\ state' = "error"
    /\ shutdownPromise' = "rejected"
    /\ lastOp' = [op |-> "stop settled", threw |-> TRUE]
    /\ UNCHANGED startCalls
    /\ EngineUnchanged

\* mutant: only a stopped application refuses the operation
ensureRunning_notStopped == state # "stopped"

\* if (this.state !== AppState.RUNNING) throw ...
ensureRunning == state = "running"

\* sendMessage, sendBatch, consume, stopConsumer, getQueueStats: the check,
\* then the call is handed to the message queue
queueOperation(o) ==
    /\ lastOp' = [op |-> o, threw |-> ~ensureRunning, from |-> state]
    /\ UNCHANGED <<state, shutdownPromise, startCalls, shutdownStep>>
    /\ EngineUnchanged

NextApp ==
    \/ start
    \/ databaseInitialized
    \/ started
    \/ \E s \in StartSteps : startFails(s)
    \/ stop
    \/ queueStopped
    \/ closed
    \/ shutdownFails
    \/ \E o \in QueueOperations : queueOperation(o)

SpecApp == InitFor("app") /\ [][NextApp]_vars

\* C38: start() is accepted in INITIALIZED and STOPPED only, elsewhere it
\* throws and changes nothing; an accepted start goes to STARTING and ends in
\* RUNNING, or in ERROR when a step fails; the queue operations are rejected
\* in every state but RUNNING.
C38_Step ==
    /\ lastOp'.op = "LocusMQ.start" =>
          IF state \in {"initialized", "stopped"}
          THEN ~lastOp'.threw /\ state' = "starting"
          ELSE /\ lastOp'.threw
               /\ UNCHANGED <<state, shutdownPromise, startCalls,
                              shutdownStep>>
    /\ lastOp'.op = "start settled" =>
          /\ state' = IF lastOp'.threw THEN "error" ELSE "running"
    /\ lastOp'.op \in QueueOperations =>
          /\ state # "running" => lastOp'.threw
          /\ UNCHANGED <<state, shutdownPromise, startCalls, shutdownStep>>

C38_StartPrecondition == [][C38_Step]_vars

\* a second start was accepted from STOPPED and ended in RUNNING, and
\* start is then refused
C38_Witness ==
    /\ lastOp = [op |-> "LocusMQ.start", from |-> "running", threw |-> TRUE]
    /\ shutdownPromise = "resolved"
    /\ state = "running"

\* C39: whenever stop() is called in state RUNNING the shutdown steps are
\* executed (by this call or by an earlier call whose shutdown is still
\* going on), and when the returned promise is resolved the state is STOPPED.
C39_Step ==
    /\ (lastOp'.op = "LocusMQ.stop" /\ state = "running") =>
           shutdownStep' # "idle"
    /\ (lastOp'.op = "LocusMQ.stop" /\ state = "running"
          /\ lastOp'.returned = "resolved") => state' = "stopped"
    /\ (lastOp'.op = "stop settled" /\ ~lastOp'.threw) =>
           state' = "stopped"

C39_StopShutsDown == [][C39_Step]_vars

====
